---------------------------- MODULE Spec2Model ----------------------------
(***************************************************************************)
(* Model of src/script.js, the translation editor of downthemall/translate:*)
(* Item / PlaceholderItem validation, the Locale catalog with its debounced*)
(* aggregate update, the merge step of loadLocales and the load / save     *)
(* handlers of main.                                                       *)
(*                                                                         *)
(* Strings are sequences of characters; a character is a one-element name. *)
(* "hellip" stands for U+2026, "LF" for the line feed.                     *)
(***************************************************************************)
EXTENDS Integers, Sequences, FiniteSets, TLC

Ellipsis == "hellip"
LF == "LF"
Dot == "."
Dollar == "$"

(* ---------------------------- string helpers --------------------------- *)

\* String.prototype.trim: the white space of the alphabet is " " and LF.
IsSpace(c) == c \in {" ", LF}

RECURSIVE trimStart(_)
trimStart(s) ==
  IF s # <<>> /\ IsSpace(Head(s)) THEN trimStart(Tail(s)) ELSE s

RECURSIVE trimEnd(_)
trimEnd(s) ==
  IF s # <<>> /\ IsSpace(s[Len(s)]) THEN trimEnd(SubSeq(s, 1, Len(s) - 1)) ELSE s

trim(s) == trimEnd(trimStart(s))

\* String.prototype.includes
includes(s, sub) ==
  \E i \in 1..(Len(s) - Len(sub) + 1) : SubSeq(s, i, i + Len(sub) - 1) = sub

\* String.prototype.startsWith
startsWith(s, prefix) ==
  Len(prefix) <= Len(s) /\ SubSeq(s, 1, Len(prefix)) = prefix

\* s.replace("...", U+2026) with a string pattern: the first occurrence only
replaceEllipsis(s) ==
  LET occ == {i \in 1..(Len(s) - 2) : SubSeq(s, i, i + 2) = <<Dot, Dot, Dot>>}
  IN IF occ = {} THEN s
     ELSE LET i == CHOOSE j \in occ : \A k \in occ : j <= k
          IN SubSeq(s, 1, i - 1) \o <<Ellipsis>> \o SubSeq(s, i + 3, Len(s))

\* String.prototype.toUpperCase on the alphabet of placeholder keys
upperChar(c) == CASE c = "u" -> "U" [] c = "n" -> "N" [] OTHER -> c
toUpperCase(s) == [i \in 1..Len(s) |-> upperChar(s[i])]

(* -------------------------------- Item --------------------------------- *)

\* an absent (undefined) optional property
Undefined == [defined |-> FALSE, value |-> <<>>]
Def(v) == [defined |-> TRUE, value |-> v]

\* statusElem: textContent and style.color.  "hand" is U+1F91A, "check" is
\* U+2713, "bang" is U+2757.
StatusUntouched == [textContent |-> "hand", color |-> "yellow"]
StatusUnchanged == [textContent |-> "check", color |-> "yellow"]
StatusValid == [textContent |-> "check", color |-> "green"]
StatusInvalid == [textContent |-> "bang", color |-> "red"]
StatusNone == [textContent |-> "", color |-> ""]

\* new Set(keys.map(toUpperCase)): insertion order, duplicates dropped
RECURSIVE newSet(_)
newSet(keys) ==
  IF keys = <<>> THEN <<>>
  ELSE LET front == newSet(SubSeq(keys, 1, Len(keys) - 1))
           last == toUpperCase(keys[Len(keys)])
       IN IF \E i \in 1..Len(front) : front[i] = last THEN front
          ELSE Append(front, last)

\* Item constructor (PlaceholderItem when entry.placeholders is truthy);
\* entry is a record of the merged base: message, description, placeholders,
\* messageTranslated
NewItem(id, entry) ==
  [id |-> id,
   message |-> entry.message,
   description |-> entry.description,
   placeholders |-> entry.placeholders,
   messageTranslated |-> entry.messageTranslated,
   holders |-> IF entry.placeholders.defined
               THEN newSet(entry.placeholders.value) ELSE <<>>,
   value |-> IF entry.messageTranslated.defined
                /\ entry.messageTranslated.value # <<>>
             THEN trim(entry.messageTranslated.value) ELSE <<>>,
   statusElem |-> StatusNone,
   errorsElem |-> [textContent |-> <<>>, display |-> ""],
   errors |-> 0]

translated(item) == replaceEllipsis(trim(item.value))

isTranslated(item) == translated(item) # <<>>

isUnchanged(item) == item.message = translated(item)

\* the matches of /\$(.+?)\$/g in t from index `from` on, as the captured
\* names in order: leftmost match, lazy group of one or more characters
\* other than line terminators, next search after the end of the match
RECURSIVE regexMatches(_, _)
regexMatches(t, from) ==
  LET close(j) == {k \in (j + 2)..Len(t) :
                     /\ t[k] = Dollar
                     /\ \A m \in (j + 1)..(k - 1) : t[m] # LF}
      starts == {j \in from..Len(t) : t[j] = Dollar /\ close(j) # {}}
  IN IF starts = {} THEN <<>>
     ELSE LET j == CHOOSE x \in starts : \A y \in starts : x <= y
              k == CHOOSE x \in close(j) : \A y \in close(j) : x <= y
          IN <<SubSeq(t, j + 1, k - 1)>> \o regexMatches(t, k + 1)

ErrNotPresent(h) == [kind |-> "not present", holder |-> h]
ErrInvalid(p) == [kind |-> "is invalid", holder |-> p]

\* a variant of computeErrors reporting the invalid tokens first
computeErrorsInvalidFirst(item) ==
  IF ~item.placeholders.defined \/ ~isTranslated(item) THEN <<>>
  ELSE LET t == translated(item)
           missing(h) == ~includes(t, <<Dollar>> \o h \o <<Dollar>>)
           unknown(p) == \A i \in 1..Len(item.holders) : item.holders[i] # p
           np == SelectSeq(item.holders, missing)
           inv == SelectSeq(regexMatches(t, 1), unknown)
       IN [i \in 1..Len(inv) |-> ErrInvalid(inv[i])]
          \o [i \in 1..Len(np) |-> ErrNotPresent(np[i])]

\* Item.computeErrors / PlaceholderItem.computeErrors
computeErrors(item) ==
  IF ~item.placeholders.defined THEN <<>>
  ELSE IF ~isTranslated(item) THEN <<>>
  ELSE LET t == translated(item)
           missing(h) == ~includes(t, <<Dollar>> \o h \o <<Dollar>>)
           unknown(p) == \A i \in 1..Len(item.holders) : item.holders[i] # p
           np == SelectSeq(item.holders, missing)
           inv == SelectSeq(regexMatches(t, 1), unknown)
       IN [i \in 1..Len(np) |-> ErrNotPresent(np[i])]
          \o [i \in 1..Len(inv) |-> ErrInvalid(inv[i])]


\* a variant of validate that tests isUnchanged before the errors
validateUnchangedFirst(item) ==
  IF ~isTranslated(item)
  THEN [item |-> [item EXCEPT !.statusElem = StatusUntouched,
                              !.errorsElem = [textContent |-> <<>>,
                                              display |-> "none"]],
        notified |-> FALSE]
  ELSE LET errors == computeErrors(item)
           it == [item EXCEPT !.errors = Len(errors)]
       IN IF isUnchanged(it)
          THEN [item |-> [it EXCEPT !.statusElem = StatusUnchanged,
                                    !.errorsElem = [textContent |-> <<>>,
                                                    display |-> "none"]],
                notified |-> TRUE]
          ELSE IF it.errors # 0
          THEN [item |-> [it EXCEPT !.statusElem = StatusInvalid,
                                    !.errorsElem = [textContent |-> errors,
                                                    display |-> "block"]],
                notified |-> TRUE]
          ELSE [item |-> [it EXCEPT !.statusElem = StatusValid,
                                    !.errorsElem = [textContent |-> <<>>,
                                                    display |-> "none"]],
                notified |-> TRUE]

\* Item.validate: the item after the run, and whether the run reached
\* this.locale.updated(this) (line 125).  The return of line 96 leaves the
\* function through the finally block and skips line 125.
validate(item) ==
  IF ~isTranslated(item)
  THEN [item |-> [item EXCEPT !.statusElem = StatusUntouched,
                              !.errorsElem = [textContent |-> <<>>,
                                              display |-> "none"]],
        notified |-> FALSE]
  ELSE LET errors == computeErrors(item)
           it == [item EXCEPT !.errors = Len(errors)]
       IN IF it.errors # 0
          THEN \* throw: the finally clears errorsElem, the catch fills it
               [item |-> [it EXCEPT !.statusElem = StatusInvalid,
                                    !.errorsElem = [textContent |-> errors,
                                                    display |-> "block"]],
                notified |-> TRUE]
          ELSE IF isUnchanged(it)
          THEN [item |-> [it EXCEPT !.statusElem = StatusUnchanged,
                                    !.errorsElem = [textContent |-> <<>>,
                                                    display |-> "none"]],
                notified |-> TRUE]
          ELSE [item |-> [it EXCEPT !.statusElem = StatusValid,
                                    !.errorsElem = [textContent |-> <<>>,
                                                    display |-> "none"]],
                notified |-> TRUE]

\* Item.toJSON: a description that is undefined is dropped by JSON.stringify
ItemToJSON(item) ==
  [message |-> Def(translated(item)),
   description |-> item.description,
   placeholders |-> item.placeholders]

(* ------------------------------ sorting.js ----------------------------- *)

Digits == <<"0", "1", "2", "3", "4", "5", "6", "7", "8", "9">>
Letters == <<"a", "b", "c", "d", "e", "f", "g", "h", "i", "j", "k", "l", "m",
             "n", "o", "p", "q", "r", "s", "t", "u", "v", "w", "x", "y", "z">>
IsDigit(c) == \E i \in 1..Len(Digits) : Digits[i] = c
DigitVal(c) == (CHOOSE i \in 1..Len(Digits) : Digits[i] = c) - 1
\* the code point of a character of an id
Code(c) ==
  IF IsDigit(c) THEN 48 + DigitVal(c)
  ELSE 96 + (CHOOSE i \in 1..Len(Letters) : Letters[i] = c)

\* the chunks of a string: a run of digits is one chunk with its numeric
\* value, any other character is a chunk with its code point
RECURSIVE chunks(_, _)
chunks(s, acc) ==
  IF s = <<>>
  THEN IF acc.open THEN <<[num |-> TRUE, v |-> acc.v]>> ELSE <<>>
  ELSE IF IsDigit(Head(s))
       THEN chunks(Tail(s), [open |-> TRUE, v |-> acc.v * 10 + DigitVal(Head(s))])
       ELSE (IF acc.open THEN <<[num |-> TRUE, v |-> acc.v]>> ELSE <<>>)
            \o <<[num |-> FALSE, v |-> Code(Head(s))]>>
            \o chunks(Tail(s), [open |-> FALSE, v |-> 0])

compareChunk(x, y) ==
  IF x.num # y.num THEN (IF x.num THEN -1 ELSE 1)
  ELSE IF x.v < y.v THEN -1 ELSE IF x.v > y.v THEN 1 ELSE 0

RECURSIVE compareChunks(_, _)
compareChunks(a, b) ==
  IF a = <<>> /\ b = <<>> THEN 0
  ELSE IF a = <<>> THEN -1
  ELSE IF b = <<>> THEN 1
  ELSE IF compareChunk(Head(a), Head(b)) # 0 THEN compareChunk(Head(a), Head(b))
  ELSE compareChunks(Tail(a), Tail(b))

\* the Natural Comparator: negative, zero or positive
naturalCaseCompare(a, b) ==
  compareChunks(chunks(a, [open |-> FALSE, v |-> 0]),
                chunks(b, [open |-> FALSE, v |-> 0]))

\* key tuples: the leading numbers in numeric order, then the string under
\* the comparator
RECURSIVE compareNums(_, _)
compareNums(a, b) ==
  IF a = <<>> \/ b = <<>> THEN 0
  ELSE IF Head(a) < Head(b) THEN -1
  ELSE IF Head(a) > Head(b) THEN 1
  ELSE compareNums(Tail(a), Tail(b))

compareKeys(k1, k2) ==
  IF compareNums(k1.nums, k2.nums) # 0 THEN compareNums(k1.nums, k2.nums)
  ELSE naturalCaseCompare(k1.str, k2.str)

\* sorted(items, keyFn, naturalCaseCompare): a new sequence, stable; keys[i]
\* is keyFn(items[i])
sorted(items, keys) ==
  LET n == Len(items)
      before(j, i) ==
        \/ compareKeys(keys[j], keys[i]) < 0
        \/ compareKeys(keys[j], keys[i]) = 0 /\ j < i
      pos(i) == 1 + Cardinality({j \in 1..n : before(j, i)})
  IN [p \in 1..n |-> items[CHOOSE i \in 1..n : pos(i) = p]]

\* sort(items, keyFn, naturalCaseCompare): the same order, in place
sort(items, keys) == sorted(items, keys)

(* ------------------------------- Locale -------------------------------- *)

Language == <<"l", "a", "n", "g", "u", "a", "g", "e">>

\* a canonical array index: such keys are enumerated first, in numeric
\* order, whatever the order of insertion
IsArrayIndex(id) ==
  /\ id # <<>>
  /\ \A i \in 1..Len(id) : IsDigit(id[i])
  /\ (Len(id) = 1 \/ id[1] # "0")

OwnKeyOrder(m) ==
  [nums |-> IF IsArrayIndex(m.id)
            THEN <<0, chunks(m.id, [open |-> FALSE, v |-> 0])[1].v>>
            ELSE <<1, 0>>,
   str |-> <<>>]

\* the own properties of an object built by inserting the members in the
\* given order (Object.entries, JSON.stringify)
ownEntries(members) ==
  sorted(members, [i \in 1..Len(members) |-> OwnKeyOrder(members[i])])

\* a truthy string property
Truthy(opt) == opt.defined /\ opt.value # <<>>

BoolNum(b) == IF b THEN 1 ELSE 0

\* a variant of LocaleSortKey without the negation of the prefix test
LocaleSortKeyNoNegation(m) ==
  [nums |-> <<BoolNum(startsWith(m.id, Language)),
              -BoolNum(~Truthy(m.entry.messageTranslated))>>,
   str |-> m.id]

\* the key function of the constructor's sort (lines 177-180)
LocaleSortKey(m) ==
  [nums |-> <<-BoolNum(startsWith(m.id, Language)),
              -BoolNum(~Truthy(m.entry.messageTranslated))>>,
   str |-> m.id]

\* the key function of toJSON's sort (line 234)
ToJSONSortKey(item) ==
  [nums |-> <<-BoolNum(startsWith(item.id, Language))>>, str |-> item.id]

\* a variant of debounced that schedules a callback on every call
debouncedNoGuard(loc) ==
  [loc EXCEPT !.scheduled = @ + 1, !.timer = TRUE,
              !.calls = @ + 1,
              !.bursts = IF loc.timer THEN @ ELSE @ + 1]

\* the function returned by debounce(fn, 0), called once.  timer: the
\* closure's timer is set; scheduled: the setTimeout callbacks not yet run.
\* calls counts the calls since the last callback ran, bursts the calls
\* that found no timer, runs the runs of Locale.update and coalesced the
\* calls the last run answered.
debounced(loc) ==
  IF loc.timer
  THEN [loc EXCEPT !.calls = @ + 1]
  ELSE [loc EXCEPT !.scheduled = @ + 1, !.timer = TRUE,
                   !.calls = @ + 1, !.bursts = @ + 1]

\* Locale.updated
updated(loc) == debounced(loc)

\* a variant of timerCallback that calls fn without clearing the timer
timerCallbackKeepsTimer(loc) ==
  [loc EXCEPT !.scheduled = @ - 1,
              !.calls = 0, !.coalesced = loc.calls, !.runs = @ + 1]

\* the setTimeout callback of debounce (lines 20-32): without a timer it
\* returns; otherwise it clears the timer and only then calls fn, once for
\* all the calls since the timer was set
timerCallback(loc) ==
  IF loc.timer
  THEN [loc EXCEPT !.scheduled = @ - 1, !.timer = FALSE,
                   !.calls = 0, !.coalesced = loc.calls, !.runs = @ + 1]
  ELSE [loc EXCEPT !.scheduled = @ - 1]

RECURSIVE updatedTimes(_, _)
updatedTimes(loc, n) == IF n = 0 THEN loc ELSE updatedTimes(updated(loc), n - 1)

\* Locale constructor on the merged base (a sequence of [id, entry])
NewLocale(merged) ==
  LET entries == ownEntries(merged)
      sortedItems == sort(entries, [i \in 1..Len(entries) |-> LocaleSortKey(entries[i])])
      n == Len(sortedItems)
      v == [i \in 1..n |->
              validate(NewItem(sortedItems[i].id, sortedItems[i].entry))]
      notified == Cardinality({i \in 1..n : v[i].notified})
      fresh == [items |-> [i \in 1..n |-> v[i].item],
                timer |-> FALSE, scheduled |-> 0,
                calls |-> 0, bursts |-> 0, runs |-> 0, coalesced |-> 0]
  IN \* items.forEach(i => i.validate()), then this.update()
     debounced(updatedTimes(fresh, notified))

\* a variant of LocaleTranslated that keeps every item
LocaleTranslatedAll(loc) == loc.items

\* get translated
LocaleTranslated(loc) == SelectSeq(loc.items, isTranslated)

\* Locale.toJSON: the members of rv in the order JSON.stringify visits them
LocaleToJSON(loc) ==
  LET tr == LocaleTranslated(loc)
      s == sorted(tr, [i \in 1..Len(tr) |-> ToJSONSortKey(tr[i])])
  IN ownEntries([i \in 1..Len(s) |-> [id |-> s[i].id, entry |-> ItemToJSON(s[i])]])

\* Locale.toString: the JSON text, as the members it holds
LocaleToString(loc) == [kind |-> "json", members |-> LocaleToJSON(loc)]

RECURSIVE SumSeq(_)
SumSeq(s) == IF s = <<>> THEN 0 ELSE Head(s) + SumSeq(Tail(s))

\* a variant of updateStatus that adds up the errors of every item
updateStatusAllItems(loc) ==
  LET tr == LocaleTranslated(loc)
      tcount == Len(tr)
      count == Len(loc.items)
      errors == SumSeq([i \in 1..count |-> loc.items[i].errors])
      unchanged == SumSeq([i \in 1..tcount |-> BoolNum(isUnchanged(tr[i]))])
  IN <<[part |-> "ratio", n |-> tcount, of |-> count],
       [part |-> "percent", n |-> tcount, of |-> count]>>
     \o (IF unchanged > 0
         THEN <<[part |-> "unchanged", n |-> unchanged, of |-> 0]>> ELSE <<>>)
     \o (IF errors # 0
         THEN <<[part |-> "errors", n |-> errors, of |-> 0]>> ELSE <<>>)

\* Locale.update after the await (lines 204-222): the parts of the status
\* line, joined with " - "
updateStatus(loc) ==
  LET tr == LocaleTranslated(loc)
      tcount == Len(tr)
      count == Len(loc.items)
      errors == SumSeq([i \in 1..tcount |-> tr[i].errors])
      unchanged == SumSeq([i \in 1..tcount |-> BoolNum(isUnchanged(tr[i]))])
  IN <<[part |-> "ratio", n |-> tcount, of |-> count],
       [part |-> "percent", n |-> tcount, of |-> count]>>
     \o (IF unchanged > 0
         THEN <<[part |-> "unchanged", n |-> unchanged, of |-> 0]>> ELSE <<>>)
     \o (IF errors # 0
         THEN <<[part |-> "errors", n |-> errors, of |-> 0]>> ELSE <<>>)

(* ----------------------------- loadLocales ----------------------------- *)

\* a variant of mergeWork that does not test the message
mergeWorkAnyMessage(base, work) ==
  LET seed(b) ==
        LET hits == {i \in 1..Len(work) :
                       work[i].id = b.id /\ work[i].entry.message.defined}
        IN IF hits = {} THEN b
           ELSE [b EXCEPT !.entry.messageTranslated =
                   Def(work[CHOOSE i \in hits : \A k \in hits : k <= i]
                         .entry.message.value)]
  IN [i \in 1..Len(base) |-> seed(base[i])]

\* lines 257-264: for every member of the work snapshot whose id is in the
\* base and whose message is truthy, base[id].messageTranslated = message
mergeWork(base, work) ==
  LET seed(b) ==
        LET hits == {i \in 1..Len(work) :
                       work[i].id = b.id /\ Truthy(work[i].entry.message)}
        IN IF hits = {} THEN b
           ELSE [b EXCEPT !.entry.messageTranslated =
                   Def(work[CHOOSE i \in hits : \A k \in hits : k <= i]
                         .entry.message.value)]
  IN [i \in 1..Len(base) |-> seed(base[i])]

\* JSON.parse of a stored text, then Object.entries of the result
parseWork(text) == ownEntries(text.members)

\* a member of a parsed work whose value is null
NullEntry ==
  [message |-> Undefined, description |-> Undefined,
   placeholders |-> Undefined, null |-> TRUE]
IsNull(entry) == "null" \in DOMAIN entry

\* loadLocales from line 248 on throws a TypeError, which nothing in it
\* catches: Object.entries(null) when the stored text parses to null (line
\* 258), entry.message when a member with an id of the base is null (line
\* 259).  The kinds of a stored text: "absent" (getItem returned null),
\* "unparseable" (JSON.parse throws, caught at line 253), "null", "number"
\* (a parsed value without own entries) and "json" (an object)
loadThrows(base, work) ==
  \/ work.kind = "null"
  \/ /\ work.kind = "json"
     /\ \E k \in 1..Len(work.members) :
          /\ IsNull(work.members[k].entry)
          /\ \E i \in 1..Len(base) : base[i].id = work.members[k].id

\* loadLocales from line 248 on: base is the fetched base locale, work the
\* value getItem returned
seededBase(base, work) ==
  IF work.kind = "json" THEN mergeWork(base, parseWork(work)) ELSE base

loadLocales(base, work) == NewLocale(seededBase(base, work))

(* ------------------------- the page (main) ----------------------------- *)

\* bounds of the model: the user's events (input, save, load), and the
\* writes that fail
MaxUser == 3
MaxFailures == 1

Absent == [kind |-> "absent", members |-> <<>>]

T_hi == <<"h", "i">>
T_U == <<Dollar, "U", Dollar>>
T_N == <<Dollar, "N", Dollar>>
T_dots == <<Dot, Dot, Dot, Dot, Dot, Dot>>

\* the texts an input event leaves in a field
Texts == {<<" ">>, T_hi, T_dots}

\* the base locale the remote returns
BaseLocale ==
  <<[id |-> <<"a", "2">>,
     entry |-> [message |-> T_hi, description |-> Def(<<"d">>),
                placeholders |-> Def(<<<<"u">>>>), messageTranslated |-> Undefined]],
    [id |-> Language,
     entry |-> [message |-> T_hi, description |-> Undefined,
                placeholders |-> Undefined, messageTranslated |-> Undefined]]>>

WorkEntry(msg) ==
  [message |-> msg, description |-> Undefined, placeholders |-> Undefined]

VARIABLES
  store,       \* the value localforage holds under WORK_KEY
  storage,     \* the localforage operations issued and not yet completed
  locales,     \* every Locale constructed so far; the last one is `locale`
  statusElem,  \* the parts of #status's textContent
  loader,      \* the position of loadLocale / loadLocales
  exported,    \* the content of the last download
  event,       \* the last step taken
  counts,      \* the steps taken so far, for the bounds
  input,       \* the argument of the function under test
  output       \* its result

vars == <<store, storage, locales, statusElem, loader, exported, event,
          counts, input, output>>

\* json: the text loadLocale was called with; work: the value its getItem
\* returned
NoEvent ==
  [type |-> "none", locale |-> 0, validated |-> 0, notified |-> 0,
   json |-> Absent, work |-> Absent]
NoInput == [spec |-> "page"]

\* main has called loadLocales, which awaits the base locale
Init ==
  /\ store = Absent
  /\ storage = <<>>
  /\ locales = <<>>
  /\ statusElem = <<>>
  /\ loader = [pc |-> "fetch", json |-> Absent]
  /\ exported = Absent
  /\ event = NoEvent
  /\ counts = [user |-> 0, failures |-> 0]
  /\ input = NoInput
  /\ output = NoInput

SetItem(value, by) == [op |-> "setItem", value |-> value, by |-> by]
GetItem == [op |-> "getItem", value |-> Absent, by |-> 0]

\* loadRemoteLocale resolves (line 246); loadLocales asks for the work
FetchDone ==
  /\ loader.pc = "fetch"
  /\ loader' = [loader EXCEPT !.pc = "getItem"]
  /\ storage' = Append(storage, GetItem)
  /\ event' = [NoEvent EXCEPT !.type = "fetched"]
  /\ UNCHANGED <<store, locales, statusElem, exported, counts, input, output>>

\* getItem resolves (line 248): parse, merge, new Locale (lines 249-265)
GetItemDone ==
  /\ storage # <<>> /\ Head(storage).op = "getItem"
  /\ IF loadThrows(BaseLocale, store)
     THEN /\ locales' = locales
          /\ event' = [NoEvent EXCEPT !.type = "load failed",
                                      !.json = loader.json, !.work = store]
     ELSE LET loc == loadLocales(BaseLocale, store)
          IN /\ locales' = Append(locales, loc)
             /\ event' = [type |-> "construct", locale |-> Len(locales) + 1,
                          validated |-> Len(loc.items),
                          notified |-> loc.calls - 1,
                          json |-> loader.json, work |-> store]
  /\ storage' = Tail(storage)
  /\ loader' = [pc |-> "idle", json |-> Absent]
  /\ UNCHANGED <<store, statusElem, exported, counts, input, output>>

\* an input event on the i-th field of the displayed Locale: validate
Edit(i, text) ==
  /\ locales # <<>>
  /\ counts.user < MaxUser
  /\ LET c == Len(locales)
         loc == locales[c]
     IN /\ i \in 1..Len(loc.items)
        /\ text # loc.items[i].value
        /\ LET r == validate([loc.items[i] EXCEPT !.value = text])
               edited == [loc EXCEPT !.items[i] = r.item]
           IN /\ locales' = [locales EXCEPT ![c] =
                               IF r.notified THEN updated(edited) ELSE edited]
              /\ event' = [NoEvent EXCEPT !.type = "input", !.locale = c,
                                          !.validated = 1,
                                          !.notified = BoolNum(r.notified)]
  /\ counts' = [counts EXCEPT !.user = @ + 1]
  /\ UNCHANGED <<store, storage, statusElem, loader, exported, input, output>>

\* a setTimeout callback of Locale c's debounce runs (lines 20-32); fn is
\* Locale.update up to its await (line 203)
TimerFire(c) ==
  /\ c \in 1..Len(locales)
  /\ locales[c].scheduled > 0
  /\ locales' = [locales EXCEPT ![c] = timerCallback(locales[c])]
  /\ IF locales[c].timer
     THEN /\ storage' = Append(storage, SetItem(LocaleToString(locales[c]), c))
          /\ event' = [NoEvent EXCEPT !.type = "update", !.locale = c]
     ELSE /\ storage' = storage
          /\ event' = [NoEvent EXCEPT !.type = "idle timer", !.locale = c]
  /\ UNCHANGED <<store, statusElem, loader, exported, counts, input, output>>

\* the setItem of Locale c's update resolves: lines 204-222
UpdateDone(c) ==
  /\ storage # <<>> /\ Head(storage).op = "setItem" /\ Head(storage).by = c
  /\ c \in 1..Len(locales)
  /\ store' = Head(storage).value
  /\ storage' = Tail(storage)
  /\ statusElem' = updateStatus(locales[c])
  /\ event' = [NoEvent EXCEPT !.type = "delivered", !.locale = c]
  /\ UNCHANGED <<locales, loader, exported, counts, input, output>>

\* the setItem of Locale c's update rejects: lines 224-226
UpdateFailed(c) ==
  /\ storage # <<>> /\ Head(storage).op = "setItem" /\ Head(storage).by = c
  /\ c \in 1..Len(locales)
  /\ counts.failures < MaxFailures
  /\ storage' = Tail(storage)
  /\ counts' = [counts EXCEPT !.failures = @ + 1]
  /\ event' = [NoEvent EXCEPT !.type = "write failed", !.locale = c]
  /\ UNCHANGED <<store, locales, statusElem, loader, exported, input, output>>

\* the click handler of #save (lines 372-382)
Save ==
  /\ locales # <<>>
  /\ counts.user < MaxUser
  /\ exported' = LocaleToString(locales[Len(locales)])
  /\ counts' = [counts EXCEPT !.user = @ + 1]
  /\ event' = [NoEvent EXCEPT !.type = "save", !.locale = Len(locales)]
  /\ UNCHANGED <<store, storage, locales, statusElem, loader, input, output>>

\* reader.onload with an earlier download, which JSON.parse accepts (lines
\* 328-333), then
\* loadLocale up to its first await (line 305)
LoadFile(json) ==
  /\ loader.pc = "idle"
  /\ counts.user < MaxUser
  /\ json.kind = "json"
  /\ loader' = [pc |-> "setItem", json |-> json]
  /\ storage' = Append(storage, SetItem(json, 0))
  /\ counts' = [counts EXCEPT !.user = @ + 1]
  /\ event' = [NoEvent EXCEPT !.type = "load file"]
  /\ UNCHANGED <<store, locales, statusElem, exported, input, output>>

\* the setItem of loadLocale resolves (line 305); loadLocales starts
LoadSetItemDone ==
  /\ storage # <<>> /\ Head(storage).op = "setItem" /\ Head(storage).by = 0
  /\ store' = Head(storage).value
  /\ storage' = Tail(storage)
  /\ loader' = [loader EXCEPT !.pc = "fetch"]
  /\ event' = [NoEvent EXCEPT !.type = "work stored"]
  /\ UNCHANGED <<locales, statusElem, exported, counts, input, output>>

Next ==
  \/ FetchDone
  \/ GetItemDone
  \/ \E i \in 1..Len(BaseLocale) : \E text \in Texts : Edit(i, text)
  \/ \E c \in 1..Len(locales) : TimerFire(c)
  \/ \E c \in 1..Len(locales) : UpdateDone(c)
  \/ \E c \in 1..Len(locales) : UpdateFailed(c)
  \/ Save
  \/ \E json \in {exported} : LoadFile(json)
  \/ LoadSetItemDone

Spec == Init /\ [][Next]_vars

(* ------------------- computeErrors on bounded inputs -------------------- *)

\* the longest text typed into the field of the item under test
MaxTextLen == 6

TextAlphabet == {Dollar, "U", "N", LF}

TextsUpTo(n) == UNION {[1..k -> TextAlphabet] : k \in 0..n}

\* the keys of the placeholders declaration of the item under test
KeyLists == {<<>>, <<<<"u">>>>, <<<<"u">>, <<"n">>>>, <<<<"n">>, <<"U">>, <<"u">>>>}

\* no page is open
Idle ==
  /\ store = Absent
  /\ storage = <<>>
  /\ locales = <<>>
  /\ statusElem = <<>>
  /\ loader = [pc |-> "idle", json |-> Absent]
  /\ exported = Absent
  /\ event = NoEvent
  /\ counts = [user |-> 0, failures |-> 0]

pageVars == <<store, storage, locales, statusElem, loader, exported, event, counts>>

\* a PlaceholderItem declaring the keys, its field holding the text
ItemUnderTest(keys, text) ==
  [NewItem(<<"a", "2">>,
           [message |-> T_hi, description |-> Undefined,
            placeholders |-> Def(keys), messageTranslated |-> Undefined])
   EXCEPT !.value = text]

InitErrors ==
  /\ Idle
  /\ input \in [spec : {"errors"}, keys : KeyLists, text : TextsUpTo(MaxTextLen)]
  /\ output = [done |-> FALSE, errors |-> <<>>]

ComputeErrors ==
  /\ input.spec = "errors" /\ ~output.done
  /\ output' = [done |-> TRUE,
                errors |-> computeErrors(ItemUnderTest(input.keys, input.text))]
  /\ UNCHANGED <<pageVars, input>>

NextErrors == ComputeErrors

SpecErrors == InitErrors /\ [][NextErrors]_vars

(* ---------------- loadLocales on bounded base and work ------------------ *)

Language2 == Language \o <<"2">>
Language10 == Language \o <<"1", "0">>
A2 == <<"a", "2">>
A10 == <<"a", "1", "0">>
Z == <<"z">>

\* the ids of a fetched base locale, in the order of the file
BaseIdOrder == <<A10, Language2, A2, Language10>>
\* the ids of a stored work, in the order of the text
WorkIdOrder == <<Z, Language10, A2, A10, Language2>>
Ids(order) == {order[i] : i \in 1..Len(order)}

PlainEntry ==
  [message |-> T_hi, description |-> Undefined,
   placeholders |-> Undefined, messageTranslated |-> Undefined]

\* the base locale with the ids of S
BaseOf(S) ==
  LET in(id) == id \in S
      ids == SelectSeq(BaseIdOrder, in)
  IN [i \in 1..Len(ids) |-> [id |-> ids[i], entry |-> PlainEntry]]

\* the work text with an entry for every id f does not leave out; the
\* message of an entry is empty or spells the id
WorkOf(f) ==
  LET in(id) == f[id] # "absent"
      ids == SelectSeq(WorkIdOrder, in)
  IN [kind |-> "json",
      members |-> [i \in 1..Len(ids) |->
                     [id |-> ids[i],
                      entry |-> WorkEntry(IF f[ids[i]] = "empty" THEN Def(<<>>)
                                          ELSE Def(ids[i]))]]]

\* stored texts that are no mapping from ids to entries: not JSON, the
\* JSON texts null and 5, and an object with a null member beside a
\* translation of language2
Unparseable == [kind |-> "unparseable", members |-> <<>>]
JsonNull == [kind |-> "null", members |-> <<>>]
JsonNumber == [kind |-> "number", members |-> <<>>]
WorkWithNull(id) ==
  [kind |-> "json",
   members |-> <<[id |-> id, entry |-> NullEntry],
                 [id |-> Language2, entry |-> WorkEntry(Def(Language2))]>>]
MalformedWorks ==
  {Unparseable, JsonNull, JsonNumber} \cup {WorkWithNull(id) : id \in {Z, A2}}

Bases == {BaseOf(S) : S \in (SUBSET Ids(BaseIdOrder)) \ {{}}}
Works == {Absent} \cup
         {WorkOf(f) : f \in [Ids(WorkIdOrder) -> {"absent", "empty", "text"}]}
         \cup MalformedWorks

InitMerge ==
  /\ Idle
  /\ input \in [spec : {"merge"}, base : Bases, work : Works]
  /\ output = [stage |-> "fetched", merged |-> <<>>, items |-> <<>>]

\* lines 248-264
MergeWork ==
  /\ input.spec = "merge" /\ output.stage = "fetched"
  /\ output' = IF loadThrows(input.base, input.work)
               THEN [output EXCEPT !.stage = "threw"]
               ELSE [output EXCEPT !.stage = "merged",
                                   !.merged = seededBase(input.base, input.work)]
  /\ UNCHANGED <<pageVars, input>>

\* line 265
Construct ==
  /\ input.spec = "merge" /\ output.stage = "merged"
  /\ output' = [output EXCEPT !.stage = "built",
                              !.items = NewLocale(output.merged).items]
  /\ UNCHANGED <<pageVars, input>>

NextMerge == MergeWork \/ Construct

SpecMerge == InitMerge /\ [][NextMerge]_vars

(* ------------------- Locale.toJSON on bounded Locales ------------------ *)

N2 == <<"2">>
N10 == <<"1", "0">>

\* the ids of a fetched base locale, in the order of the file; two of them
\* are canonical array indices
JSONIdOrder == <<A2, N10, Language2, N2>>

\* the base locale with the ids of S
BaseJSON(S) ==
  LET in(id) == id \in S
      ids == SelectSeq(JSONIdOrder, in)
  IN [i \in 1..Len(ids) |-> [id |-> ids[i], entry |-> PlainEntry]]

\* the work text with a translation for every id of S
WorkJSON(S) ==
  LET in(id) == id \in S
      ids == SelectSeq(JSONIdOrder, in)
  IN [kind |-> "json",
      members |-> [i \in 1..Len(ids) |->
                     [id |-> ids[i], entry |-> WorkEntry(Def(ids[i]))]]]

InitJSON ==
  /\ Idle
  /\ input \in [spec : {"merge"},
                base : {BaseJSON(S) : S \in (SUBSET Ids(JSONIdOrder)) \ {{}}},
                work : {WorkJSON(S) : S \in SUBSET Ids(JSONIdOrder)}]
  /\ output = [stage |-> "fetched", merged |-> <<>>, items |-> <<>>,
               json |-> <<>>]

\* an input event that types a text into the i-th field, which is not
\* translated yet (lines 67, 90-126)
TypeInto(i) ==
  /\ input.spec = "merge" /\ output.stage = "built"
  /\ i \in 1..Len(output.items)
  /\ ~isTranslated(output.items[i])
  /\ output' = [output EXCEPT
                  !.items[i] = validate([output.items[i] EXCEPT !.value = T_hi]).item]
  /\ UNCHANGED <<pageVars, input>>

\* Locale.toString (lines 229-242)
Serialize ==
  /\ input.spec = "merge" /\ output.stage = "built"
  /\ output' = [output EXCEPT !.stage = "serialized",
                              !.json = LocaleToJSON([items |-> output.items])]
  /\ UNCHANGED <<pageVars, input>>

NextJSON ==
  \/ MergeWork
  \/ Construct
  \/ \E i \in 1..Len(JSONIdOrder) : TypeInto(i)
  \/ Serialize

SpecJSON == InitJSON /\ [][NextJSON]_vars

(* ------------------ one Locale's debounce and update ------------------- *)

\* the calls of update() made on the Locale
MaxCalls == 5

\* a Locale before its constructor's first call of update; its items play
\* no part in the debounce
FreshLocale ==
  [items |-> <<>>, timer |-> FALSE, scheduled |-> 0,
   calls |-> 0, bursts |-> 0, runs |-> 0, coalesced |-> 0]

\* made: the calls so far; awaiting: the runs of update that await their
\* setItem (line 203); failed: the writes that were rejected
InitDebounce ==
  /\ Idle
  /\ input = [spec |-> "debounce"]
  /\ output = [loc |-> FreshLocale, made |-> 0, awaiting |-> 0, failed |-> 0]

\* this.update() in the constructor or in updated() (lines 190, 198)
Call ==
  /\ input.spec = "debounce" /\ output.made < MaxCalls
  /\ output' = [output EXCEPT !.loc = updated(output.loc), !.made = @ + 1]
  /\ UNCHANGED <<pageVars, input>>

\* a setTimeout callback runs (lines 20-32); with a timer it starts a run
\* of update, which awaits its write
Fire ==
  /\ input.spec = "debounce" /\ output.loc.scheduled > 0
  /\ output' = [output EXCEPT !.loc = timerCallback(output.loc),
                              !.awaiting = IF output.loc.timer THEN @ + 1 ELSE @]
  /\ UNCHANGED <<pageVars, input>>

\* the write of a run resolves (lines 204-222)
Resolve ==
  /\ input.spec = "debounce" /\ output.awaiting > 0
  /\ output' = [output EXCEPT !.awaiting = @ - 1]
  /\ UNCHANGED <<pageVars, input>>

\* the write of a run is rejected (lines 224-226)
Reject ==
  /\ input.spec = "debounce" /\ output.awaiting > 0
  /\ output.failed < MaxFailures
  /\ output' = [output EXCEPT !.awaiting = @ - 1, !.failed = @ + 1]
  /\ UNCHANGED <<pageVars, input>>

NextDebounce == Call \/ Fire \/ Resolve \/ Reject

\* the event loop runs every setTimeout callback that is due
SpecDebounce == InitDebounce /\ [][NextDebounce]_vars /\ WF_vars(Fire)

(* ------------------------------ the claims ----------------------------- *)

Locs == 1..Len(locales)
ItemsOf(c) == {locales[c].items[i] : i \in 1..Len(locales[c].items)}
LastOp == storage[Len(storage)]

\* C1: for every Locale, at most one deferred callback is pending, one is
\* pending exactly when update() was called since the last callback ran,
\* every burst of calls is answered by exactly one run of Locale.update
\* (runs plus the pending callback equal the bursts started), and the run
\* serializes the entries as the last edit left them.
C1_Coalescing ==
  /\ \A c \in Locs :
       /\ locales[c].scheduled <= 1
       /\ (locales[c].scheduled = 1) = (locales[c].calls >= 1)
       /\ locales[c].timer = (locales[c].scheduled = 1)
       /\ locales[c].runs + locales[c].scheduled = locales[c].bursts
  /\ event.type = "update" =>
       /\ locales[event.locale].calls = 0
       /\ locales[event.locale].coalesced >= 1
       /\ LastOp = SetItem(LocaleToString(locales[event.locale]), event.locale)

\* a run of Locale.update that answered a burst of three calls
C1_Witness ==
  /\ event.type = "update"
  /\ locales[event.locale].coalesced >= 3
  /\ locales[event.locale].runs >= 1

\* C2: every run of validate calls updated() exactly once (stated for the
\* runs of an input event and for the runs of the constructor).
C2_ValidateNotifies ==
  event.type \in {"input", "construct"} => event.notified = event.validated

\* the displayed state of an item
Displayed(item) ==
  CASE item.statusElem = StatusUntouched -> "Untouched"
    [] item.statusElem = StatusInvalid -> "Invalid"
    [] item.statusElem = StatusUnchanged -> "ValidButUnchanged"
    [] item.statusElem = StatusValid -> "Valid"
    [] OTHER -> "none"

\* C4: after every validation run the displayed state of an entry is a
\* function of its current text: Untouched iff the normalized text is empty,
\* else Invalid iff computeErrors is non-empty, else ValidButUnchanged iff
\* the text equals the source message, else Valid; the diagnostic is shown
\* iff the state is Invalid.
C4_DisplayedState ==
  \A c \in Locs : \A item \in ItemsOf(c) :
    LET t == replaceEllipsis(trim(item.value))
        errs == computeErrors(item)
    IN /\ Displayed(item) =
            (IF t = <<>> THEN "Untouched"
             ELSE IF errs # <<>> THEN "Invalid"
             ELSE IF t = item.message THEN "ValidButUnchanged"
             ELSE "Valid")
       /\ (item.errorsElem.display = "block") = (Displayed(item) = "Invalid")
       /\ (item.errorsElem.textContent # <<>>) = (Displayed(item) = "Invalid")
       /\ Displayed(item) = "Invalid" => item.errorsElem.textContent = errs

\* an input event left an entry Invalid whose text equals its source message
C4_Witness ==
  /\ event.type = "input"
  /\ \E item \in ItemsOf(event.locale) :
       /\ Displayed(item) = "Invalid"
       /\ item.message = replaceEllipsis(trim(item.value))

\* C5: an entry whose normalized text is empty has a stored errorCount of 0.
C5_UntranslatedNoErrors ==
  \A c \in Locs : \A item \in ItemsOf(c) :
    replaceEllipsis(trim(item.value)) = <<>> => item.errors = 0

\* the number n of the part of the status line, 0 when the part is absent
PartN(status, part) ==
  IF \E i \in 1..Len(status) : status[i].part = part
  THEN status[CHOOSE i \in 1..Len(status) : status[i].part = part].n
  ELSE 0

\* C6: a delivered summary counts the entries with a non-empty normalized
\* text, all entries, the translated entries equal to their source message,
\* and the structural errors of the current text of the translated entries
\* only.
C6_Summary ==
  event.type = "delivered" =>
    LET loc == locales[event.locale]
        idx == 1..Len(loc.items)
        norm(i) == replaceEllipsis(trim(loc.items[i].value))
        tr == {i \in idx : norm(i) # <<>>}
        nerr(i) == Len(computeErrors(loc.items[i]))
    IN /\ Len(statusElem) >= 2
       /\ statusElem[1] = [part |-> "ratio", n |-> Cardinality(tr), of |-> Len(loc.items)]
       /\ statusElem[2] = [part |-> "percent", n |-> Cardinality(tr), of |-> Len(loc.items)]
       /\ PartN(statusElem, "unchanged") =
            Cardinality({i \in tr : norm(i) = loc.items[i].message})
       /\ PartN(statusElem, "errors") =
            SumSeq([i \in idx |-> IF i \in tr THEN nerr(i) ELSE 0])

\* a summary delivered while a cleared entry still stores its old errors
C6_Witness ==
  /\ event.type = "delivered"
  /\ \E item \in ItemsOf(event.locale) :
       replaceEllipsis(trim(item.value)) = <<>> /\ item.errors > 0
  /\ \E item \in ItemsOf(event.locale) : replaceEllipsis(trim(item.value)) # <<>>

BaseEntry(id) == (CHOOSE i \in 1..Len(BaseLocale) : BaseLocale[i].id = id)

\* text is the serialization of loc: the translated entries and no other
Serializes(text, loc) ==
  LET m == text.members
      idx == 1..Len(loc.items)
      norm(i) == replaceEllipsis(trim(loc.items[i].value))
  IN /\ text.kind = "json"
     /\ {m[k].id : k \in 1..Len(m)} = {loc.items[i].id : i \in {j \in idx : norm(j) # <<>>}}
     /\ \A k, l \in 1..Len(m) : m[k].id = m[l].id => k = l
     /\ \A k \in 1..Len(m) : \A i \in idx :
          m[k].id = loc.items[i].id =>
            /\ m[k].entry.message = Def(norm(i))
            /\ m[k].entry.placeholders =
                 BaseLocale[BaseEntry(m[k].id)].entry.placeholders

\* C7: every serialization, for the store or for a download, holds exactly
\* the ids of the entries whose normalized text is non-empty, each with the
\* normalized text as message and with the declared placeholders iff the
\* entry declares placeholders.
C7_Serialization ==
  /\ event.type = "update" => Serializes(LastOp.value, locales[event.locale])
  /\ event.type = "save" => Serializes(exported, locales[event.locale])

\* a download of a Locale with a translated and an untranslated entry
C7_Witness ==
  /\ event.type = "save"
  /\ exported.members # <<>>
  /\ \E item \in ItemsOf(event.locale) : replaceEllipsis(trim(item.value)) = <<>>

\* C8: exporting a Locale and loading the export as the work against the
\* same base gives every translated entry its normalized text again and
\* leaves every untranslated entry untranslated.
C8_RoundTrip ==
  \A c \in Locs :
    LET again == loadLocales(BaseLocale, LocaleToString(locales[c]))
    IN \A item \in ItemsOf(c) :
         \E a \in {again.items[i] : i \in 1..Len(again.items)} :
           /\ a.id = item.id
           /\ replaceEllipsis(trim(a.value)) = replaceEllipsis(trim(item.value))

\* the delimited tokens of t, read character by character: a "$" opens a
\* token, the next "$" at least two places on closes it, a line feed
\* abandons it
RECURSIVE ScanTokens(_, _, _)
ScanTokens(t, i, open) ==
  IF i > Len(t) THEN <<>>
  ELSE IF open = 0
       THEN ScanTokens(t, i + 1, IF t[i] = Dollar THEN i ELSE 0)
       ELSE IF t[i] = LF THEN ScanTokens(t, i + 1, 0)
       ELSE IF t[i] = Dollar /\ i >= open + 2
       THEN <<SubSeq(t, open + 1, i - 1)>> \o ScanTokens(t, i + 1, 0)
       ELSE ScanTokens(t, i + 1, open)

\* C3: for a PlaceholderItem with declared names H and a translated text t,
\* computeErrors returns one "not present" error for each name of H whose
\* token does not occur in t, in the order of H, followed by one "is invalid"
\* error for each delimited token of t whose name is not in H, in order of
\* appearance; with H = {U} the four cases of the claim give 0, 1, 1 and 2
\* errors.
C3_ComputeErrors ==
  output.done =>
    LET item == ItemUnderTest(input.keys, input.text)
        H == item.holders
        t == replaceEllipsis(trim(input.text))
        missing(h) == \A i \in 1..(Len(t) - Len(h) - 1) :
                        SubSeq(t, i, i + Len(h) + 1) # <<Dollar>> \o h \o <<Dollar>>
        unknown(p) == p \notin {H[i] : i \in 1..Len(H)}
        np == SelectSeq(H, missing)
        inv == SelectSeq(ScanTokens(t, 1, 0), unknown)
    IN /\ t # <<>> =>
            /\ Len(output.errors) = Len(np) + Len(inv)
            /\ \A i \in 1..Len(np) : output.errors[i] = ErrNotPresent(np[i])
            /\ \A i \in 1..Len(inv) :
                 output.errors[Len(np) + i] = ErrInvalid(inv[i])
       /\ input.keys = <<<<"u">>>> =>
            /\ input.text = T_U => output.errors = <<>>
            /\ input.text = <<"N">> => output.errors = <<ErrNotPresent(<<"U">>)>>
            /\ input.text = T_U \o T_N => output.errors = <<ErrInvalid(<<"N">>)>>
            /\ input.text = T_N =>
                 output.errors = <<ErrNotPresent(<<"U">>), ErrInvalid(<<"N">>)>>

\* both defects: the declared token is missing and a spurious one is present
C3_Witness ==
  /\ output.done
  /\ input.keys = <<<<"u">>>> /\ input.text = T_N
  /\ Len(output.errors) = 2

SeqIds(members) == [i \in 1..Len(members) |-> members[i].id]

C11_StaleUpdateIsNoOp ==
  event.type \in {"update", "delivered"} => event.locale = Len(locales)

\* C12: a rejected persistence write is caught inside update: it changes
\* neither the Locale nor the stored work, and it does not block later
\* runs.  After a failed write the next notifying edit finds no timer and
\* arms one, and the run it leads to issues the write again, with the
\* serialization the Locale has when that run starts.
C12_FailedWriteDoesNotBlock ==
  counts.failures > 0 =>
    /\ \A c \in Locs : locales[c].timer = (locales[c].scheduled = 1)
    /\ (event.type = "input" /\ event.notified = 1) =>
         /\ locales[event.locale].timer
         /\ locales[event.locale].scheduled = 1
    /\ event.type = "update" =>
         /\ LastOp = SetItem(LocaleToString(locales[event.locale]), event.locale)
         /\ ~locales[event.locale].timer

\* a write failed, the Locale was edited, and a later run has issued the
\* write again with the edited text, which the store does not hold yet
C12_Witness ==
  /\ counts.failures > 0
  /\ event.type = "update"
  /\ locales[event.locale].runs >= 2
  /\ LastOp.value # store
  /\ \E i \in 1..Len(locales[event.locale].items) :
       isTranslated(locales[event.locale].items[i])

\* C13: for every stored text that is no mapping from ids to entries (not
\* parseable, or parseable to null, to a number, or to an object with a
\* null member) loadLocales completes; when the text is no object at all
\* the Locale is built from the base as if no work were stored.
C13_MalformedWorkIsAbsent ==
  (input.work \in MalformedWorks /\ output.stage # "fetched") =>
    /\ output.stage \in {"merged", "built"}
    /\ input.work.kind # "json" => output.merged = input.base

\* C14: with a single Locale, no write failed and the event loop drained
\* (no storage operation in flight, no timer pending, no load running), the
\* stored work is the serialization of the Locale's current items and
\* #status shows the summary of the current items, whatever edits were made,
\* clearing a field included.
C14_QuiescentIsCurrent ==
  (/\ Len(locales) = 1
   /\ counts.failures = 0
   /\ storage = <<>>
   /\ loader.pc = "idle"
   /\ locales[1].scheduled = 0) =>
    /\ store = LocaleToString(locales[1])
    /\ statusElem = updateStatus(locales[1])

\* C15: the normalized text of every item (get translated) has no leading
\* and no trailing whitespace and does not contain three consecutive dots,
\* also when the raw text holds "..." more than once.
C15_Normalized ==
  \A c \in Locs : \A item \in ItemsOf(c) :
    LET t == translated(item)
    IN /\ t # <<>> => (~IsSpace(t[1]) /\ ~IsSpace(t[Len(t)]))
       /\ ~includes(t, <<Dot, Dot, Dot>>)

\* C16: the ids of a serialization are in an order that depends on the set
\* of translated ids only, not on the order of the Locale's items: every id
\* starting with "language" precedes every other id, and within each of the
\* two groups the ids are in the order of the Natural Comparator.
C16_SerializationOrder ==
  output.stage = "serialized" =>
    \A i, j \in 1..Len(output.json) :
      i < j =>
        LET a == output.json[i].id
            b == output.json[j].id
        IN /\ startsWith(b, Language) => startsWith(a, Language)
           /\ (startsWith(a, Language) = startsWith(b, Language)) =>
                naturalCaseCompare(a, b) < 0

\* C17: no call of a Locale's debounced update is lost: whenever calls are
\* waiting (made since the last run of update started), a further run of
\* update starts later, also when the calls arrive while an earlier run
\* awaits its write or after an earlier write was rejected.
C17_NoCallLost ==
  \A k \in 0..MaxCalls :
    (output.loc.calls > 0 /\ output.loc.runs = k) ~> (output.loc.runs > k)

\* after a rejected write, a call waits while a later run still awaits its
\* write
C17_Witness ==
  /\ input.spec = "debounce"
  /\ output.loc.calls > 0
  /\ output.loc.scheduled = 1
  /\ output.awaiting > 0
  /\ output.failed > 0

\* C18: a load of a well-formed file is not lost to a concurrent edit: in
\* every interleaving of loadLocale (store the text, fetch the base, read
\* the work back, build the Locale) with edits and updates of the Locale
\* displayed before, the work loadLocales reads back is the text loadLocale
\* was called with.
C18_LoadReadsImported ==
  (event.type \in {"construct", "load failed"} /\ event.json.kind = "json") =>
    event.work = event.json

\* C19: every run of update delivers a freshly computed summary to #status,
\* whether its persistence write succeeds or not: right after a write was
\* rejected #status shows the summary of the Locale's current items.
C19_SummaryDespiteFailure ==
  event.type = "write failed" =>
    statusElem = updateStatus(locales[event.locale])

=============================================================================
